---------------------------- MODULE Spec2Model ----------------------------
(***************************************************************************)
(* The aggregator of the streaming pipeline (src/unnamed/part_000, lines   *)
(* 41-417): the Stream Dispatcher (main's processing loop), the Latency    *)
(* Recorder (update_latency_stats), the Batch Writer (batch_writer), the   *)
(* Stats Reporter (stats_reporter) and the interrupt handler (stop).       *)
(*                                                                         *)
(* Every shared access is one step.  Thread-local statements are merged    *)
(* into the step of the shared access that follows them.                   *)
(*                                                                         *)
(* Scaling.  The source's sizes (5000 rows, 100 ms, 100 commands, 64-bit   *)
(* integers) are carried by the definitions BATCH_SIZE, FLUSH_INTERVAL_MS, *)
(* SLEEP_MS, PIPELINE_MAX and LLONG_MAX, which keep the source's names and *)
(* are set from the Scaled* bounds below.  Every formula is stated in      *)
(* terms of the names, never of the numbers.                               *)
(***************************************************************************)
EXTENDS Integers, Sequences, FiniteSets, TLC

\* ------------------------------------------------------------------ bounds
\* Messages the topic holds (valid and malformed together) in Spec.
MaxMsgs == 3
\* Messages the topic holds in SpecAll.
MaxMsgsAll == 1
\* Messages in the topic when termination is checked.
MaxMsgsLive == 1
\* Calls of update_latency_stats each concurrent caller makes in SpecRec.
MaxCalls == 2
\* The largest latency a concurrent caller records in SpecRec.
MaxLatency == 2
\* BATCH_SIZE (5000 in the source), scaled.
ScaledBatch == 2
\* FLUSH_INTERVAL_MS (100 in the source), scaled.
ScaledInterval == 2
\* The Writer's sleep (10 ms in the source), scaled.
ScaledSleep == 1
\* The Dispatcher's cache pipeline threshold (100 in the source), scaled.
ScaledPipeline == 2
\* LLONG_MAX (2^63 - 1 in the source), scaled.
ScaledLLongMax == 7

\* --------------------------------------------------------------- constants
BATCH_SIZE == ScaledBatch
FLUSH_INTERVAL_MS == ScaledInterval
SLEEP_MS == ScaledSleep
PIPELINE_MAX == ScaledPipeline
LLONG_MAX == ScaledLLongMax
LLONG_MIN == -LLONG_MAX - 1
\* latency_ms = latency_ns / 1e6, timestamp_ms = timestamp_ns / 1000000
NS_PER_MS == 1000000

\* ----------------------------------------------------------------- helpers
Min2(a, b) == IF a <= b THEN a ELSE b
Max2(a, b) == IF a >= b THEN a ELSE b

RECURSIVE SetMin(_)
SetMin(S) ==
    LET x == CHOOSE y \in S : TRUE
    IN  IF S = {x} THEN x ELSE Min2(x, SetMin(S \ {x}))

RECURSIVE SetMax(_)
SetMax(S) ==
    LET x == CHOOSE y \in S : TRUE
    IN  IF S = {x} THEN x ELSE Max2(x, SetMax(S \ {x}))

RECURSIVE Concat(_)
Concat(ss) == IF ss = <<>> THEN <<>> ELSE Head(ss) \o Concat(Tail(ss))

Range(s) == {s[i] : i \in 1..Len(s)}

\* long long arithmetic: the values a 64-bit (here scaled) signed integer holds
InRange(x) == LLONG_MIN <= x /\ x <= LLONG_MAX
\* two's complement wrap-around
Wrap(x) == ((x - LLONG_MIN) % (2 * (LLONG_MAX + 1))) + LLONG_MIN
\* C++ integer division truncates toward zero (b > 0)
TruncDiv(a, b) == IF a >= 0 THEN a \div b ELSE -((-a) \div b)

\* long long division a / b: it faults when b is 0 (undefined behaviour, a
\* SIGFPE on the usual builds), otherwise truncates.
DivLL(a, b) ==
    IF b = 0 THEN [fault |-> TRUE, q |-> 0]
    ELSE [fault |-> FALSE, q |-> TruncDiv(a, b)]

\* A double that is an integer number of nanoseconds divided by 1e6.
\* The sign of num is the sign of the double.
DivBy1e6(ns) == [num |-> ns, den |-> NS_PER_MS]
NonNegative(d) == d.num >= 0

\* printf's %f: the value rounded to six decimal places, in the unit of the
\* prices (0.0000001).
FormatF(x) == ((x + 5) \div 10) * 10

\* ----------------------------------------------------------------- inputs
\* Wire payloads the broker can deliver: a payload that does not decode, and
\* encoded MarketUpdate records.  timestamp_ns is any 64-bit integer; one
\* record carries the most negative one.  price is a double, written here
\* in units of 0.0000001; one record has a seventh decimal digit.
Garbage == [wire |-> "garbage"]
Updates ==
    { [wire |-> "update", ticker |-> "AAPL", price |-> 10, volume |-> 1, timestamp_ns |-> 1],
      [wire |-> "update", ticker |-> "AAPL", price |-> 25, volume |-> 1, timestamp_ns |-> 3],
      [wire |-> "update", ticker |-> "GOOG", price |-> 10, volume |-> 1, timestamp_ns |-> LLONG_MIN] }
Payloads == Updates \cup {Garbage}
\* Readings of current_timestamp_ns() (the system clock, after the epoch):
\* later than the first timestamp, earlier than the second, and more than
\* LLONG_MAX later than the third.
Arrivals == {2}
NoMsg == [wire |-> "none"]
\* A message whose err field is set.
ErrMsg == [wire |-> "error"]

\* marketdata::MarketUpdate::ParseFromArray
ParseFromArray(payload) == payload.wire = "update"

\* Threads that call update_latency_stats: main in Spec, the concurrent
\* callers in SpecRec.
Recorders == {"rec1", "rec2"}
Callers == {"main"} \cup Recorders

VARIABLES
    \* shared (lines 61-76)
    run, total_processed, total_latency_ns, min_latency_ns, max_latency_ns,
    batch_queue, queue_mutex,
    \* update_latency_stats, per calling thread: position, argument,
    \* current_min / current_max
    u_pc, u_latency_ns, u_current,
    \* main: position and locals (lines 321-392)
    d_pc, msg_count, redis_pipeline_count, rkmessage, arrival_timestamp, latency_ns,
    \* the broker: messages of the topic not yet delivered
    topic,
    \* the cache connection: commands appended, redisGetReply calls made,
    \* whether one of them returned other than REDIS_OK
    redis_out, replies_read, get_reply_failed,
    \* batch_writer: position and locals (lines 175-179), the clock reading
    \* as elapsed = now - last_flush
    w_pc, local_batch, elapsed, total_written,
    \* the relational sink: every statement PQexec was given, with its result
    flushes,
    \* stats_reporter: position and locals (lines 107-122)
    r_pc, processed, total_lat, min_lat, max_lat, queue_size, avg_latency,
    \* history, not program state
    enqueued, pending_at_exit, completed, calls, decode_failures,
    \* history: the processed count of the reporter's previous snapshot, -1
    \* before the first
    prev_processed

shared == <<run, total_processed, total_latency_ns, min_latency_ns, max_latency_ns,
            batch_queue, queue_mutex>>
uvars == <<u_pc, u_latency_ns, u_current>>
dvars == <<d_pc, msg_count, redis_pipeline_count, rkmessage, arrival_timestamp,
           latency_ns, topic, redis_out, replies_read, get_reply_failed>>
wvars == <<w_pc, local_batch, elapsed, total_written, flushes>>
rvars == <<r_pc, processed, total_lat, min_lat, max_lat, queue_size,
           avg_latency>>
hvars == <<enqueued, pending_at_exit, completed, calls, decode_failures,
           prev_processed>>
vars == <<shared, uvars, dvars, wvars, rvars, hvars>>

\* The state with main at position dpc and the reporter at position rpc.
BootAt(messages, dpc, rpc) ==
    /\ topic = messages
    /\ run = 1
    /\ total_processed = 0
    /\ total_latency_ns = 0
    /\ min_latency_ns = LLONG_MAX
    /\ max_latency_ns = 0
    /\ batch_queue = <<>>
    /\ queue_mutex = "free"
    /\ u_pc = [t \in Callers |-> "idle"]
    /\ u_latency_ns = [t \in Callers |-> 0]
    /\ u_current = [t \in Callers |-> 0]
    /\ d_pc = dpc
    /\ msg_count = 0
    /\ redis_pipeline_count = 0
    /\ rkmessage = NoMsg
    /\ arrival_timestamp = 0
    /\ latency_ns = 0
    /\ redis_out = <<>>
    /\ replies_read = 0
    /\ get_reply_failed = FALSE
    /\ w_pc = "loop"
    /\ local_batch = <<>>
    /\ elapsed = 0
    /\ total_written = 0
    /\ flushes = <<>>
    /\ r_pc = rpc
    /\ processed = 0
    /\ total_lat = 0
    /\ min_lat = 0
    /\ max_lat = 0
    /\ queue_size = 0
    /\ avg_latency = DivLL(0, 1)
    /\ enqueued = <<>>
    /\ pending_at_exit = <<>>
    /\ completed = {}
    /\ calls = [t \in Recorders |-> 0]
    /\ decode_failures = 0
    /\ prev_processed = -1

\* The state when main enters its processing loop (line 323), both workers
\* started.
Boot(messages) == BootAt(messages, "loop", "loop")

\* The program with MaxMsgs messages waiting in the topic.
Init == Boot(MaxMsgs)

\* ------------------------------------------------- update_latency_stats
\* std::atomic<long long>::compare_exchange_weak(expected, desired) on an
\* atomic holding `stored`: the outcomes as [ok, stored, expected].  It
\* succeeds only when stored = expected; it may fail spuriously; a failure
\* loads the stored value into expected.
CompareExchangeWeak_NoCompare(stored, expected, desired) ==
    { [ok |-> TRUE, stored |-> desired, expected |-> expected] }

CompareExchangeWeak(stored, expected, desired) ==
    { [ok |-> FALSE, stored |-> stored, expected |-> stored] }
    \cup
    (IF stored = expected
     THEN { [ok |-> TRUE, stored |-> desired, expected |-> expected] }
     ELSE {})

\* line 89: total_processed++
UpdCount(t) ==
    /\ u_pc[t] = "count"
    /\ total_processed' = total_processed + 1
    /\ u_pc' = [u_pc EXCEPT ![t] = "total"]
    /\ UNCHANGED <<run, total_latency_ns, min_latency_ns, max_latency_ns,
                   batch_queue, queue_mutex, u_latency_ns, u_current,
                   dvars, wvars, rvars, hvars>>

\* line 90: total_latency_ns += latency_ns (atomic arithmetic wraps)
UpdTotal(t) ==
    /\ u_pc[t] = "total"
    /\ total_latency_ns' = Wrap(total_latency_ns + u_latency_ns[t])
    /\ u_pc' = [u_pc EXCEPT ![t] = "min_load"]
    /\ UNCHANGED <<run, total_processed, min_latency_ns, max_latency_ns,
                   batch_queue, queue_mutex, u_latency_ns, u_current,
                   dvars, wvars, rvars, hvars>>

\* line 93: current_min = min_latency_ns.load()
UpdMinLoad(t) ==
    /\ u_pc[t] = "min_load"
    /\ u_current' = [u_current EXCEPT ![t] = min_latency_ns]
    /\ u_pc' = [u_pc EXCEPT ![t] = "min_cas"]
    /\ UNCHANGED <<shared, u_latency_ns,
                   dvars, wvars, rvars, hvars>>

\* lines 94-95: one evaluation of the while condition
UpdMinCas(t) ==
    /\ u_pc[t] = "min_cas"
    /\ IF u_latency_ns[t] < u_current[t]
       THEN \E o \in CompareExchangeWeak(min_latency_ns, u_current[t], u_latency_ns[t]) :
                /\ min_latency_ns' = o.stored
                /\ u_current' = [u_current EXCEPT ![t] = o.expected]
                /\ u_pc' = [u_pc EXCEPT ![t] = IF o.ok THEN "max_load" ELSE "min_cas"]
       ELSE /\ u_pc' = [u_pc EXCEPT ![t] = "max_load"]
            /\ UNCHANGED <<min_latency_ns, u_current>>
    /\ UNCHANGED <<run, total_processed, total_latency_ns, max_latency_ns,
                   batch_queue, queue_mutex, u_latency_ns,
                   dvars, wvars, rvars, hvars>>

\* line 98: current_max = max_latency_ns.load()
UpdMaxLoad(t) ==
    /\ u_pc[t] = "max_load"
    /\ u_current' = [u_current EXCEPT ![t] = max_latency_ns]
    /\ u_pc' = [u_pc EXCEPT ![t] = "max_cas"]
    /\ UNCHANGED <<shared, u_latency_ns,
                   dvars, wvars, rvars, hvars>>

\* lines 99-100: one evaluation of the while condition; then the return
UpdMaxCas(t) ==
    /\ u_pc[t] = "max_cas"
    /\ IF u_latency_ns[t] > u_current[t]
       THEN \E o \in CompareExchangeWeak(max_latency_ns, u_current[t], u_latency_ns[t]) :
                /\ max_latency_ns' = o.stored
                /\ u_current' = [u_current EXCEPT ![t] = o.expected]
                /\ u_pc' = [u_pc EXCEPT ![t] = IF o.ok THEN "ret" ELSE "max_cas"]
       ELSE /\ u_pc' = [u_pc EXCEPT ![t] = "ret"]
            /\ UNCHANGED <<max_latency_ns, u_current>>
    /\ UNCHANGED <<run, total_processed, total_latency_ns, min_latency_ns,
                   batch_queue, queue_mutex, u_latency_ns,
                   dvars, wvars, rvars, hvars>>

update_latency_stats(t) ==
    \/ UpdCount(t)
    \/ UpdTotal(t)
    \/ UpdMinLoad(t)
    \/ UpdMinCas(t)
    \/ UpdMaxLoad(t)
    \/ UpdMaxCas(t)

\* ------------------------------------------------- main: the Dispatcher
\* lines 358-359 where the build does not trap: the subtraction, wrapped
\* when its result is not a long long, then the clamp.
ClampedLatency(arrival, produce) ==
    LET d == IF InRange(arrival - produce) THEN arrival - produce
             ELSE Wrap(arrival - produce)
    IN  IF d < 0 THEN 0 ELSE d

\* redisAppendCommand(redis, "SET %s %f", ticker, price)
SetCommand(update) ==
    [cmd |-> "SET", key |-> update.ticker, value |-> FormatF(update.price)]

\* lines 379-385: the MessageBatch pushed.  seq numbers the pushes; the code
\* has no such field, it names the item in the formulas.
MessageBatch(n, update, lat_ns) ==
    [seq |-> n, ticker |-> update.ticker, price |-> update.price,
     volume |-> update.volume, timestamp_ns |-> update.timestamp_ns,
     latency_ms |-> DivBy1e6(lat_ns)]

\* line 323: while (run); after the loop, lines 394-405
D_Loop ==
    /\ d_pc = "loop"
    /\ d_pc' = IF run = 1 THEN "poll" ELSE "drain"
    /\ UNCHANGED <<topic, shared, uvars, msg_count, redis_pipeline_count, rkmessage,
                   arrival_timestamp, latency_ns, redis_out, replies_read, get_reply_failed,
                   wvars, rvars, hvars>>

\* An idle poll that leaves the pipeline as it is.
D_PollIdle_NoDrain ==
    /\ d_pc = "poll"
    /\ rkmessage' = NoMsg
    /\ d_pc' = "loop"
    /\ UNCHANGED <<topic, shared, uvars, msg_count, redis_pipeline_count,
                   arrival_timestamp, latency_ns, redis_out, replies_read, get_reply_failed,
                   wvars, rvars, hvars>>

\* lines 329-335, 368-373, 395-400: redisGetReply called n times; each call
\* returns REDIS_OK, and its reply is freed, or it does not
GetReplies(n) ==
    IF n > 0
    THEN \E failed \in BOOLEAN : get_reply_failed' = (get_reply_failed \/ failed)
    ELSE get_reply_failed' = get_reply_failed

\* lines 325-339: the poll times out (rkmessage is null); every outstanding
\* reply is read
D_PollIdle ==
    /\ d_pc = "poll"
    /\ rkmessage' = NoMsg
    /\ replies_read' = replies_read + redis_pipeline_count
    /\ GetReplies(redis_pipeline_count)
    /\ redis_pipeline_count' = 0
    /\ d_pc' = "loop"
    /\ UNCHANGED <<topic, shared, uvars, msg_count, arrival_timestamp,
                   latency_ns, redis_out, wvars, rvars, hvars>>

\* lines 341-347: the poll returns a message carrying an error
D_PollError ==
    /\ d_pc = "poll"
    /\ rkmessage' = ErrMsg
    /\ d_pc' = "loop"
    /\ UNCHANGED <<topic, shared, uvars, msg_count, redis_pipeline_count,
                   arrival_timestamp, latency_ns, redis_out, replies_read, get_reply_failed,
                   wvars, rvars, hvars>>

\* lines 325, 349-351: the poll returns a message
D_PollMessage ==
    /\ d_pc = "poll"
    /\ topic > 0
    /\ topic' = topic - 1
    /\ \E payload \in Payloads, arrival \in Arrivals :
          /\ rkmessage' = payload
          /\ arrival_timestamp' = arrival
    /\ msg_count' = msg_count + 1
    /\ d_pc' = "parse"
    /\ UNCHANGED <<shared, uvars, redis_pipeline_count, latency_ns, redis_out,
                   replies_read, get_reply_failed, wvars, rvars, hvars>>

\* A decode failure that is counted as a processed message.
D_ParseFail_CountsProcessed ==
    /\ d_pc = "parse"
    /\ ~ParseFromArray(rkmessage)
    /\ rkmessage' = NoMsg
    /\ arrival_timestamp' = 0
    /\ d_pc' = "loop"
    /\ decode_failures' = decode_failures + 1
    /\ total_processed' = total_processed + 1
    /\ UNCHANGED <<topic, run, total_latency_ns, min_latency_ns, max_latency_ns,
                   batch_queue, queue_mutex, uvars, msg_count,
                   redis_pipeline_count, latency_ns, redis_out, replies_read, get_reply_failed,
                   wvars, rvars, enqueued, pending_at_exit, completed, calls,
                   prev_processed>>

\* lines 355, 391: ParseFromArray fails; the message is destroyed
D_ParseFail ==
    /\ d_pc = "parse"
    /\ ~ParseFromArray(rkmessage)
    /\ rkmessage' = NoMsg
    /\ arrival_timestamp' = 0
    /\ d_pc' = "loop"
    /\ decode_failures' = decode_failures + 1
    /\ UNCHANGED <<topic, shared, uvars, msg_count, redis_pipeline_count, latency_ns,
                   redis_out, replies_read, get_reply_failed, wvars, rvars,
                   enqueued, pending_at_exit, completed, calls, prev_processed>>

\* lines 355-362: ParseFromArray succeeds, the latency is computed and
\* update_latency_stats is called
D_ParseOk ==
    /\ d_pc = "parse"
    /\ ParseFromArray(rkmessage)
    /\ latency_ns' = ClampedLatency(arrival_timestamp, rkmessage.timestamp_ns)
    /\ u_latency_ns' = [u_latency_ns EXCEPT !["main"] = latency_ns']
    /\ u_pc' = [u_pc EXCEPT !["main"] = "count"]
    /\ d_pc' = "update"
    /\ UNCHANGED <<topic, shared, u_current, msg_count, redis_pipeline_count, rkmessage,
                   arrival_timestamp, redis_out, replies_read, get_reply_failed, wvars, rvars, hvars>>

\* line 358 in a build that traps on signed overflow: the process aborts,
\* and every thread with it
D_OverflowTrap ==
    /\ d_pc = "parse"
    /\ ParseFromArray(rkmessage)
    /\ ~InRange(arrival_timestamp - rkmessage.timestamp_ns)
    /\ d_pc' = "abort"
    /\ w_pc' = "abort"
    /\ r_pc' = "abort"
    /\ UNCHANGED <<topic, shared, uvars, msg_count, redis_pipeline_count, rkmessage,
                   arrival_timestamp, latency_ns, redis_out, replies_read, get_reply_failed,
                   local_batch, elapsed, total_written, flushes,
                   processed, total_lat, min_lat, max_lat, queue_size, avg_latency,
                   hvars>>

\* The pipeline counted up with no command appended.
D_Append_NoCommand ==
    /\ d_pc = "update"
    /\ u_pc["main"] = "ret"
    /\ u_pc' = [u_pc EXCEPT !["main"] = "idle"]
    /\ redis_pipeline_count' = redis_pipeline_count + 1
    /\ d_pc' = "pipe"
    /\ completed' = completed \cup {u_latency_ns["main"]}
    /\ UNCHANGED <<topic, shared, u_latency_ns, u_current, msg_count, rkmessage,
                   arrival_timestamp, latency_ns, redis_out, replies_read, get_reply_failed, wvars,
                   rvars, enqueued, pending_at_exit, calls, decode_failures,
                   prev_processed>>

\* The SET put in front of the commands already appended.
D_Append_Prepend ==
    /\ d_pc = "update"
    /\ u_pc["main"] = "ret"
    /\ u_pc' = [u_pc EXCEPT !["main"] = "idle"]
    /\ redis_out' = <<SetCommand(rkmessage)>> \o redis_out
    /\ redis_pipeline_count' = redis_pipeline_count + 1
    /\ d_pc' = "pipe"
    /\ completed' = completed \cup {u_latency_ns["main"]}
    /\ UNCHANGED <<topic, shared, u_latency_ns, u_current, msg_count, rkmessage,
                   arrival_timestamp, latency_ns, replies_read, get_reply_failed, wvars, rvars,
                   enqueued, pending_at_exit, calls, decode_failures,
                   prev_processed>>

\* lines 364-365: update_latency_stats has returned; the SET is appended
D_Append ==
    /\ d_pc = "update"
    /\ u_pc["main"] = "ret"
    /\ u_pc' = [u_pc EXCEPT !["main"] = "idle"]
    /\ redis_out' = Append(redis_out, SetCommand(rkmessage))
    /\ redis_pipeline_count' = redis_pipeline_count + 1
    /\ d_pc' = "pipe"
    /\ completed' = completed \cup {u_latency_ns["main"]}
    /\ UNCHANGED <<topic, shared, u_latency_ns, u_current, msg_count, rkmessage,
                   arrival_timestamp, latency_ns, replies_read, get_reply_failed, wvars, rvars,
                   enqueued, pending_at_exit, calls, decode_failures,
                   prev_processed>>

\* The pipeline read out only when it holds more than PIPELINE_MAX commands.
D_Pipe_OffByOne ==
    /\ d_pc = "pipe"
    /\ IF redis_pipeline_count > PIPELINE_MAX
       THEN /\ replies_read' = replies_read + redis_pipeline_count
            /\ GetReplies(redis_pipeline_count)
            /\ redis_pipeline_count' = 0
       ELSE UNCHANGED <<replies_read, get_reply_failed, redis_pipeline_count>>
    /\ d_pc' = "lock"
    /\ UNCHANGED <<topic, shared, uvars, msg_count, rkmessage, arrival_timestamp,
                   latency_ns, redis_out, wvars, rvars, hvars>>

\* lines 367-375: the pipeline is read out when it holds PIPELINE_MAX
\* commands, one redisGetReply call for each
D_Pipe ==
    /\ d_pc = "pipe"
    /\ IF redis_pipeline_count >= PIPELINE_MAX
       THEN /\ replies_read' = replies_read + redis_pipeline_count
            /\ GetReplies(redis_pipeline_count)
            /\ redis_pipeline_count' = 0
       ELSE UNCHANGED <<replies_read, get_reply_failed, redis_pipeline_count>>
    /\ d_pc' = "lock"
    /\ UNCHANGED <<topic, shared, uvars, msg_count, rkmessage, arrival_timestamp,
                   latency_ns, redis_out, wvars, rvars, hvars>>

\* main entering the block of lines 377-386 without waiting for the mutex.
D_Lock_NoWait ==
    /\ d_pc = "lock"
    /\ queue_mutex' = "main"
    /\ d_pc' = "push"
    /\ UNCHANGED <<topic, run, total_processed, total_latency_ns, min_latency_ns,
                   max_latency_ns, batch_queue, uvars, msg_count,
                   redis_pipeline_count, rkmessage, arrival_timestamp, latency_ns,
                   redis_out, replies_read, get_reply_failed, wvars, rvars, hvars>>

\* line 378: lock_guard takes queue_mutex
D_Lock ==
    /\ d_pc = "lock"
    /\ queue_mutex = "free"
    /\ queue_mutex' = "main"
    /\ d_pc' = "push"
    /\ UNCHANGED <<topic, run, total_processed, total_latency_ns, min_latency_ns,
                   max_latency_ns, batch_queue, uvars, msg_count,
                   redis_pipeline_count, rkmessage, arrival_timestamp, latency_ns,
                   redis_out, replies_read, get_reply_failed, wvars, rvars, hvars>>

\* lines 379-391: the push, the end of the lock's scope, the message destroyed
D_Push ==
    /\ d_pc = "push"
    /\ LET item == MessageBatch(Len(enqueued) + 1, rkmessage, latency_ns)
       IN  /\ batch_queue' = Append(batch_queue, item)
           /\ enqueued' = Append(enqueued, item)
    /\ queue_mutex' = "free"
    /\ rkmessage' = NoMsg
    /\ arrival_timestamp' = 0
    /\ latency_ns' = 0
    /\ d_pc' = "loop"
    /\ UNCHANGED <<topic, run, total_processed, total_latency_ns, min_latency_ns,
                   max_latency_ns, uvars, msg_count, redis_pipeline_count,
                   redis_out, replies_read, get_reply_failed, wvars, rvars,
                   pending_at_exit, completed, calls, decode_failures,
                   prev_processed>>

\* The last read-out given up at the first call that fails.
D_Drain_StopsAtFailure ==
    /\ d_pc = "drain"
    /\ \E failed \in BOOLEAN :
          /\ replies_read' = IF failed /\ redis_pipeline_count > 0
                              THEN replies_read
                              ELSE replies_read + redis_pipeline_count
          /\ get_reply_failed' = (get_reply_failed
                                    \/ (failed /\ redis_pipeline_count > 0))
    /\ d_pc' = "join_writer"
    /\ UNCHANGED <<topic, shared, uvars, msg_count, redis_pipeline_count, rkmessage,
                   arrival_timestamp, latency_ns, redis_out, wvars, rvars, hvars>>

\* lines 394-405: the loop has ended; the outstanding replies are read
D_Drain ==
    /\ d_pc = "drain"
    /\ replies_read' = replies_read + redis_pipeline_count
    /\ GetReplies(redis_pipeline_count)
    /\ d_pc' = "join_writer"
    /\ UNCHANGED <<topic, shared, uvars, msg_count, redis_pipeline_count, rkmessage,
                   arrival_timestamp, latency_ns, redis_out, wvars, rvars, hvars>>

\* line 407: writer_thread.join()
D_JoinWriter ==
    /\ d_pc = "join_writer"
    /\ w_pc = "done"
    /\ d_pc' = "join_stats"
    /\ UNCHANGED <<topic, shared, uvars, msg_count, redis_pipeline_count, rkmessage,
                   arrival_timestamp, latency_ns, redis_out, replies_read, get_reply_failed,
                   wvars, rvars, hvars>>

\* lines 408-415: stats_thread.join(), the cleanup, return 0
D_JoinStats ==
    /\ d_pc = "join_stats"
    /\ r_pc = "done"
    /\ d_pc' = "done"
    /\ UNCHANGED <<topic, shared, uvars, msg_count, redis_pipeline_count, rkmessage,
                   arrival_timestamp, latency_ns, redis_out, replies_read, get_reply_failed,
                   wvars, rvars, hvars>>

\* lines 78-80: the interrupt handler, installed at line 312, run when the
\* process is interrupted
stop ==
    /\ d_pc \notin {"consumer_new", "subscribe", "return_1", "abort", "done"}
    /\ run = 1
    /\ run' = 0
    /\ UNCHANGED <<total_processed, total_latency_ns, min_latency_ns,
                   max_latency_ns, batch_queue, queue_mutex, uvars, dvars,
                   wvars, rvars, hvars>>

\* ------------------------------------------------------- batch_writer
\* The drain loop putting each item at the front of the batch.
RECURSIVE DrainLoop_Reversed(_, _)
DrainLoop_Reversed(queue, batch) ==
    IF queue # <<>> /\ Len(batch) < BATCH_SIZE
    THEN DrainLoop_Reversed(Tail(queue), <<Head(queue)>> \o batch)
    ELSE [queue |-> queue, batch |-> batch]

\* The drain loop without the test of the batch size.
RECURSIVE DrainLoop_NoCap(_, _)
DrainLoop_NoCap(queue, batch) ==
    IF queue # <<>>
    THEN DrainLoop_NoCap(Tail(queue), Append(batch, Head(queue)))
    ELSE [queue |-> queue, batch |-> batch]

\* lines 185-188: the drain loop, run under the lock
RECURSIVE DrainLoop(_, _)
DrainLoop(queue, batch) ==
    IF queue # <<>> /\ Len(batch) < BATCH_SIZE
    THEN DrainLoop(Tail(queue), Append(batch, Head(queue)))
    ELSE [queue |-> queue, batch |-> batch]

\* should_flush with the size trigger alone
ShouldFlush_SizeOnly(batch, el) ==
    batch # <<>> /\ Len(batch) >= BATCH_SIZE

\* should_flush without its test for an empty batch
ShouldFlush_NoEmptyTest(batch, el) ==
    Len(batch) >= BATCH_SIZE \/ el >= FLUSH_INTERVAL_MS

\* lines 195-196: should_flush
ShouldFlush(batch, el) ==
    batch # <<>> /\ (Len(batch) >= BATCH_SIZE \/ el >= FLUSH_INTERVAL_MS)

\* lines 201-211: one row of the INSERT statement
Row(msg) ==
    [seq |-> msg.seq, time_ms |-> TruncDiv(msg.timestamp_ns, NS_PER_MS),
     ticker |-> msg.ticker, price |-> FormatF(msg.price), volume |-> msg.volume,
     latency_ms |-> msg.latency_ms]

Query(batch) == [i \in 1..Len(batch) |-> Row(batch[i])]

\* The steady clock read again: any time may have passed.  Readings at or
\* past FLUSH_INTERVAL_MS are one value, the code cannot tell them apart.
ClockAdvance(el, atLeast) ==
    Min2(el + atLeast, FLUSH_INTERVAL_MS)..FLUSH_INTERVAL_MS

\* line 181: while (run)
W_Loop ==
    /\ w_pc = "loop"
    /\ IF run = 1
       THEN /\ w_pc' = "lock"
            /\ UNCHANGED pending_at_exit
       ELSE /\ w_pc' = "exit"
            /\ pending_at_exit' = local_batch \o batch_queue
    /\ UNCHANGED <<shared, uvars, dvars, local_batch, elapsed, total_written,
                   flushes, rvars, enqueued, completed, calls, decode_failures,
                   prev_processed>>

\* line 184: lock_guard takes queue_mutex
W_Lock ==
    /\ w_pc = "lock"
    /\ queue_mutex = "free"
    /\ queue_mutex' = "writer"
    /\ w_pc' = "drain"
    /\ UNCHANGED <<run, total_processed, total_latency_ns, min_latency_ns,
                   max_latency_ns, batch_queue, uvars, dvars, local_batch,
                   elapsed, total_written, flushes, rvars, hvars>>

\* A drain whose lock outlives the block of lines 183-189.
W_Drain_KeepLock ==
    /\ w_pc = "drain"
    /\ LET d == DrainLoop(batch_queue, local_batch)
       IN  /\ batch_queue' = d.queue
           /\ local_batch' = d.batch
    /\ w_pc' = "check"
    /\ UNCHANGED <<run, total_processed, total_latency_ns, min_latency_ns,
                   max_latency_ns, queue_mutex, uvars, dvars, elapsed,
                   total_written, flushes, rvars, hvars>>

\* lines 185-189: the drain and the end of the lock's scope
W_Drain ==
    /\ w_pc = "drain"
    /\ LET d == DrainLoop(batch_queue, local_batch)
       IN  /\ batch_queue' = d.queue
           /\ local_batch' = d.batch
    /\ queue_mutex' = "free"
    /\ w_pc' = "check"
    /\ UNCHANGED <<run, total_processed, total_latency_ns, min_latency_ns,
                   max_latency_ns, uvars, dvars, elapsed, total_written,
                   flushes, rvars, hvars>>

\* lines 192-198: the clock is read and should_flush decided
W_Check ==
    /\ w_pc = "check"
    /\ \E el \in ClockAdvance(elapsed, 0) :
          /\ elapsed' = el
          /\ w_pc' = IF ShouldFlush(local_batch, el) THEN "flush" ELSE "sleep"
    /\ UNCHANGED <<shared, uvars, dvars, local_batch, total_written, flushes,
                   rvars, hvars>>

\* A flush that keeps the batch for the next iteration when PQexec fails.
W_Flush_KeepOnFailure ==
    /\ w_pc = "flush"
    /\ \E ok \in BOOLEAN :
          /\ flushes' = Append(flushes, [rows |-> Query(local_batch), ok |-> ok])
          /\ total_written' = IF ok THEN total_written + Len(local_batch)
                              ELSE total_written
          /\ local_batch' = IF ok THEN <<>> ELSE local_batch
    /\ elapsed' = 0
    /\ w_pc' = "loop"
    /\ UNCHANGED <<shared, uvars, dvars, rvars, hvars>>

\* A flush that adds the batch to total_written whatever PQexec returned.
W_Flush_CountsFailures ==
    /\ w_pc = "flush"
    /\ \E ok \in BOOLEAN :
          flushes' = Append(flushes, [rows |-> Query(local_batch), ok |-> ok])
    /\ total_written' = total_written + Len(local_batch)
    /\ local_batch' = <<>>
    /\ elapsed' = 0
    /\ w_pc' = "loop"
    /\ UNCHANGED <<shared, uvars, dvars, rvars, hvars>>

\* lines 199-223: the statement is built and executed; PQexec succeeds or
\* fails; the batch is cleared and last_flush = now
W_Flush ==
    /\ w_pc = "flush"
    /\ \E ok \in BOOLEAN :
          /\ flushes' = Append(flushes, [rows |-> Query(local_batch), ok |-> ok])
          /\ total_written' = IF ok THEN total_written + Len(local_batch)
                              ELSE total_written
    /\ local_batch' = <<>>
    /\ elapsed' = 0
    /\ w_pc' = "loop"
    /\ UNCHANGED <<shared, uvars, dvars, rvars, hvars>>

\* A sleep after which last_flush is set to the time of waking.
W_Sleep_ResetsClock ==
    /\ w_pc = "sleep"
    /\ elapsed' = 0
    /\ w_pc' = "loop"
    /\ UNCHANGED <<shared, uvars, dvars, local_batch, total_written, flushes,
                   rvars, hvars>>

\* line 226: sleep_for(10 ms)
W_Sleep ==
    /\ w_pc = "sleep"
    /\ elapsed' \in ClockAdvance(elapsed, SLEEP_MS)
    /\ w_pc' = "loop"
    /\ UNCHANGED <<shared, uvars, dvars, local_batch, total_written, flushes,
                   rvars, hvars>>

\* lines 230-234: the loop has ended; the two messages are printed
W_Exit ==
    /\ w_pc = "exit"
    /\ w_pc' = "done"
    /\ UNCHANGED <<shared, uvars, dvars, local_batch, elapsed, total_written,
                   flushes, rvars, hvars>>

\* lines 181-228: the steps inside the while loop
WriterLoop ==
    W_Loop \/ W_Lock \/ W_Drain \/ W_Check \/ W_Flush \/ W_Sleep

batch_writer ==
    WriterLoop \/ W_Exit

\* ------------------------------------------------------ stats_reporter
\* A reporter loop that does not look at run: while (true).
R_Loop_Forever ==
    /\ r_pc = "loop"
    /\ r_pc' = "sleep"
    /\ UNCHANGED <<shared, uvars, dvars, wvars, processed, total_lat, min_lat,
                   max_lat, queue_size, avg_latency,
                   hvars>>

\* line 104: while (run)
R_Loop ==
    /\ r_pc = "loop"
    /\ r_pc' = IF run = 1 THEN "sleep" ELSE "done"
    /\ UNCHANGED <<shared, uvars, dvars, wvars, processed, total_lat, min_lat,
                   max_lat, queue_size, avg_latency,
                   hvars>>

\* line 105: sleep_for(5 s)
R_Sleep ==
    /\ r_pc = "sleep"
    /\ r_pc' = "load_processed"
    /\ UNCHANGED <<shared, uvars, dvars, wvars, processed, total_lat, min_lat,
                   max_lat, queue_size, avg_latency,
                   hvars>>

\* A load that also resets the counter: total_processed.exchange(0).
R_LoadProcessed_Exchange ==
    /\ r_pc = "load_processed"
    /\ processed' = total_processed
    /\ total_processed' = 0
    /\ r_pc' = IF total_processed = 0 THEN "loop" ELSE "load_total"
    /\ prev_processed' = IF total_processed = 0 THEN 0 ELSE prev_processed
    /\ UNCHANGED <<run, total_latency_ns, min_latency_ns, max_latency_ns,
                   batch_queue, queue_mutex, uvars, dvars, wvars, total_lat,
                   min_lat, max_lat, queue_size, avg_latency, enqueued, pending_at_exit,
                   completed, calls, decode_failures>>

\* A load that goes on to the report whatever the count.
R_LoadProcessed_NoSkip ==
    /\ r_pc = "load_processed"
    /\ processed' = total_processed
    /\ r_pc' = "load_total"
    /\ UNCHANGED <<shared, uvars, dvars, wvars, total_lat, min_lat, max_lat,
                   queue_size, avg_latency, hvars>>

\* lines 107-108: processed = total_processed.load(); continue when 0
R_LoadProcessed ==
    /\ r_pc = "load_processed"
    /\ processed' = total_processed
    /\ r_pc' = IF total_processed = 0 THEN "loop" ELSE "load_total"
    /\ prev_processed' = IF total_processed = 0 THEN 0 ELSE prev_processed
    /\ UNCHANGED <<shared, uvars, dvars, wvars, total_lat, min_lat, max_lat,
                   queue_size, avg_latency, enqueued, pending_at_exit, completed, calls,
                   decode_failures>>

\* line 110
R_LoadTotal ==
    /\ r_pc = "load_total"
    /\ total_lat' = total_latency_ns
    /\ r_pc' = "load_min"
    /\ UNCHANGED <<shared, uvars, dvars, wvars, processed, min_lat, max_lat,
                   queue_size, avg_latency,
                   hvars>>

\* line 111
R_LoadMin ==
    /\ r_pc = "load_min"
    /\ min_lat' = min_latency_ns
    /\ r_pc' = "load_max"
    /\ UNCHANGED <<shared, uvars, dvars, wvars, processed, total_lat, max_lat,
                   queue_size, avg_latency,
                   hvars>>

\* lines 112-116: the last load and the three divisions, of which the first
\* is the long long division total_lat / processed
R_LoadMax ==
    /\ r_pc = "load_max"
    /\ max_lat' = max_latency_ns
    /\ avg_latency' = DivLL(total_lat, processed)
    /\ r_pc' = "lock"
    /\ UNCHANGED <<shared, uvars, dvars, wvars, processed, total_lat, min_lat,
                   queue_size, hvars>>

\* line 120: lock_guard takes queue_mutex
R_Lock ==
    /\ r_pc = "lock"
    /\ queue_mutex = "free"
    /\ queue_mutex' = "reporter"
    /\ r_pc' = "size"
    /\ UNCHANGED <<run, total_processed, total_latency_ns, min_latency_ns,
                   max_latency_ns, batch_queue, uvars, dvars, wvars, processed,
                   total_lat, min_lat, max_lat, queue_size, avg_latency,
                   hvars>>

\* A reporter that empties the queue it measures.
R_Size_Clear ==
    /\ r_pc = "size"
    /\ queue_size' = Len(batch_queue)
    /\ batch_queue' = <<>>
    /\ queue_mutex' = "free"
    /\ r_pc' = "print"
    /\ UNCHANGED <<run, total_processed, total_latency_ns, min_latency_ns,
                   max_latency_ns, uvars, dvars, wvars, processed,
                   total_lat, min_lat, max_lat, avg_latency, hvars>>

\* lines 121-122: queue_size = batch_queue.size(); the lock's scope ends
R_Size ==
    /\ r_pc = "size"
    /\ queue_size' = Len(batch_queue)
    /\ queue_mutex' = "free"
    /\ r_pc' = "print"
    /\ UNCHANGED <<run, total_processed, total_latency_ns, min_latency_ns,
                   max_latency_ns, batch_queue, uvars, dvars, wvars, processed,
                   total_lat, min_lat, max_lat, avg_latency, hvars>>

\* lines 124-130: the report is printed; the locals go out of scope
R_Print ==
    /\ r_pc = "print"
    /\ processed' = 0
    /\ total_lat' = 0
    /\ min_lat' = 0
    /\ max_lat' = 0
    /\ queue_size' = 0
    /\ avg_latency' = DivLL(0, 1)
    /\ r_pc' = "loop"
    /\ prev_processed' = processed
    /\ UNCHANGED <<shared, uvars, dvars, wvars, enqueued, pending_at_exit,
                   completed, calls, decode_failures>>

stats_reporter ==
    R_Loop \/ R_Sleep \/ R_LoadProcessed \/ R_LoadTotal \/ R_LoadMin
    \/ R_LoadMax \/ R_Lock \/ R_Size \/ R_Print

\* ------------------------------------------------------ the program
\* lines 323-392: the steps inside main's while loop
DispatcherLoop ==
    \/ D_Loop \/ D_PollIdle \/ D_PollError \/ D_PollMessage
    \/ D_ParseFail \/ D_ParseOk \/ D_OverflowTrap
    \/ update_latency_stats("main")
    \/ D_Append \/ D_Pipe \/ D_Lock \/ D_Push

Dispatcher ==
    \/ DispatcherLoop
    \/ D_Drain \/ D_JoinWriter

\* The Dispatcher, the Batch Writer and the interrupt, up to main's join of
\* the writer thread.  The Stats Reporter writes nothing shared but
\* queue_mutex, which it takes and releases around one read (lines 119-122);
\* it runs in SpecAll.
Next ==
    \/ Dispatcher
    \/ batch_writer
    \/ stop

Spec == Init /\ [][Next]_vars

\* Every thread of the program.
InitAll == Boot(MaxMsgsAll)

NextAll ==
    \/ Dispatcher
    \/ batch_writer
    \/ stats_reporter
    \/ D_JoinStats
    \/ stop

SpecAll == InitAll /\ [][NextAll]_vars

\* ------------------------------------------------- main before its loop
\* lines 292-296: rd_kafka_new; when it fails main returns 1
D_ConsumerNew ==
    /\ d_pc = "consumer_new"
    /\ \E created \in BOOLEAN :
          d_pc' = IF created THEN "subscribe" ELSE "return_1"
    /\ UNCHANGED <<topic, shared, uvars, msg_count, redis_pipeline_count, rkmessage,
                   arrival_timestamp, latency_ns, redis_out, replies_read, get_reply_failed,
                   wvars, rvars, hvars>>

\* lines 304-322: rd_kafka_subscribe; when it fails main returns 1, otherwise
\* the handler is installed and the reporter thread started
D_Subscribe ==
    /\ d_pc = "subscribe"
    /\ \E err \in BOOLEAN :
          IF err
          THEN d_pc' = "return_1" /\ r_pc' = r_pc
          ELSE d_pc' = "loop" /\ r_pc' = "loop"
    /\ UNCHANGED <<topic, shared, uvars, msg_count, redis_pipeline_count, rkmessage,
                   arrival_timestamp, latency_ns, redis_out, replies_read, get_reply_failed,
                   wvars, processed, total_lat, min_lat, max_lat, queue_size,
                   avg_latency, hvars>>

\* lines 295, 308: return 1 destroys writer_thread, a std::thread that is
\* joinable: std::terminate ends the process
D_Return1 ==
    /\ d_pc = "return_1"
    /\ d_pc' = "abort"
    /\ w_pc' = "abort"
    /\ r_pc' = "abort"
    /\ UNCHANGED <<topic, shared, uvars, msg_count, redis_pipeline_count, rkmessage,
                   arrival_timestamp, latency_ns, redis_out, replies_read, get_reply_failed,
                   local_batch, elapsed, total_written, flushes,
                   processed, total_lat, min_lat, max_lat, queue_size,
                   avg_latency, hvars>>

\* main from line 276 on, the writer thread started at line 275 and running,
\* the reporter thread not yet started.
InitStart == BootAt(MaxMsgsAll, "consumer_new", "unstarted")

NextStart ==
    \/ D_ConsumerNew \/ D_Subscribe \/ D_Return1
    \/ NextAll

SpecStart == InitStart /\ [][NextStart]_vars

\* Every thread, each scheduled again and again: a thread that can take a
\* step eventually takes one.  Poll, sleep, PQexec and redisGetReply return.
InitLive == Boot(MaxMsgsLive)

Fairness ==
    /\ WF_vars(Dispatcher \/ D_JoinStats)
    /\ WF_vars(batch_writer)
    /\ WF_vars(stats_reporter)

SpecLive == InitLive /\ [][NextAll]_vars /\ Fairness

\* The Dispatcher and the Batch Writer while no interrupt arrives, each
\* scheduled again and again.  The clock advances: each sleep adds at least
\* SLEEP_MS to elapsed.  main, waiting for queue_mutex, gets it: the Writer
\* sleeps with the mutex free in every iteration that does not flush.
NextRun ==
    \/ DispatcherLoop
    \/ WriterLoop

SpecRun ==
    /\ Init /\ [][NextRun]_vars
    /\ WF_vars(DispatcherLoop) /\ SF_vars(D_Lock)
    /\ WF_vars(WriterLoop)

\* ------------------------------------- concurrent update_latency_stats
\* Several threads call update_latency_stats at once while the reporter takes
\* its snapshots.  The latencies are not negative, as line 359 leaves them.
RecCall(t) ==
    /\ u_pc[t] = "idle"
    /\ calls[t] < MaxCalls
    /\ \E l \in 0..MaxLatency : u_latency_ns' = [u_latency_ns EXCEPT ![t] = l]
    /\ u_pc' = [u_pc EXCEPT ![t] = "count"]
    /\ calls' = [calls EXCEPT ![t] = calls[t] + 1]
    /\ UNCHANGED <<shared, u_current, dvars, wvars, rvars, enqueued,
                   pending_at_exit, completed, decode_failures, prev_processed>>

RecReturn(t) ==
    /\ u_pc[t] = "ret"
    /\ u_pc' = [u_pc EXCEPT ![t] = "idle"]
    /\ completed' = completed \cup {u_latency_ns[t]}
    /\ UNCHANGED <<shared, u_latency_ns, u_current, dvars, wvars, rvars,
                   enqueued, pending_at_exit, calls, decode_failures,
                   prev_processed>>

NextRec ==
    \/ \E t \in Recorders : RecCall(t) \/ update_latency_stats(t) \/ RecReturn(t)
    \/ stats_reporter

InitRec == Boot(0)

SpecRec == InitRec /\ [][NextRec]_vars

\* ---------------------------------------------------------------- claims
\* The rows the relational sink was given, in the order it was given them.
AllRows == Concat([i \in 1..Len(flushes) |-> flushes[i].rows])
\* The rows of the statements that succeeded.
OkRows ==
    Concat([i \in 1..Len(flushes) |->
               IF flushes[i].ok THEN flushes[i].rows ELSE <<>>])
\* How many rows of `rows` are item n.
Occurrences(n, rows) == Cardinality({k \in 1..Len(rows) : rows[k].seq = n})
\* The step that hands one statement to the sink.
FlushStep == Len(flushes') = Len(flushes) + 1
\* main has left its processing loop and the writer has returned.
PipelineOver ==
    /\ w_pc = "done"
    /\ d_pc \in {"join_writer", "join_stats", "done"}

\* C1: when the Writer has exited, every item that was in its local buffer
\* or in the queue when it read the shutdown flag has been in exactly one
\* statement given to the sink.
C1_ShutdownFlushesPending ==
    w_pc = "done" =>
        \A i \in 1..Len(pending_at_exit) :
            Occurrences(pending_at_exit[i].seq, AllRows) = 1

\* C2: when the pipeline is over, every decoded message is a row of exactly
\* one statement that succeeded.
C2_ExactlyOnce ==
    PipelineOver =>
        \A i \in 1..Len(enqueued) : Occurrences(enqueued[i].seq, OkRows) = 1

\* C3: no statement carries a row an earlier statement carried, and the step
\* of a failed statement leaves the local buffer empty, the queue as it was
\* and the Writer at the head of its loop.
C3_FailedFlushDiscards ==
    [][FlushStep =>
          LET f == flushes'[Len(flushes')]
          IN  /\ \A k \in 1..Len(f.rows) : Occurrences(f.rows[k].seq, AllRows) = 0
              /\ ~f.ok => /\ local_batch' = <<>>
                          /\ batch_queue' = batch_queue
                          /\ w_pc' = "loop"]_vars

\* A statement failed and the Writer has given the sink another one since.
C3_Witness ==
    \E i \in 1..Len(flushes) : ~flushes[i].ok /\ i < Len(flushes)

\* C4: the rows given to the sink, then the local buffer, then the queue, are
\* the items in the order main pushed them.
C4_Fifo ==
    AllRows \o Query(local_batch) \o Query(batch_queue) = Query(enqueued)

\* Items pushed in turn sit one in the sink, one in the buffer, one in the queue.
C4_Witness ==
    flushes # <<>> /\ local_batch # <<>> /\ batch_queue # <<>>

\* C5 as stated: an iteration flushes exactly when the buffer holds
\* BATCH_SIZE items or FLUSH_INTERVAL_MS have elapsed since the last flush.
C5_FlushIffSizeOrTime ==
    w_pc \in {"flush", "sleep"} =>
        (w_pc = "flush" <=>
            (Len(local_batch) >= BATCH_SIZE \/ elapsed >= FLUSH_INTERVAL_MS))

\* C5 amended: an iteration flushes exactly when the buffer is not empty and
\* it holds BATCH_SIZE items or FLUSH_INTERVAL_MS have elapsed.
C5_FlushIffNonEmptyAndSizeOrTime ==
    w_pc \in {"flush", "sleep"} =>
        (w_pc = "flush" <=>
            /\ local_batch # <<>>
            /\ (Len(local_batch) >= BATCH_SIZE \/ elapsed >= FLUSH_INTERVAL_MS))

\* The interval has elapsed over an empty buffer and the iteration sleeps.
C5_Witness ==
    w_pc = "sleep" /\ local_batch = <<>> /\ elapsed >= FLUSH_INTERVAL_MS

\* C6: for each decoded event the count goes up, then the SET is appended,
\* then the item is pushed; between two events the three numbers are equal,
\* and the i-th SET is for the i-th item pushed.
C6_SideEffectsInOrder ==
    LET p == total_processed
        a == Len(redis_out)
        e == Len(enqueued)
    IN  /\ d_pc \in {"loop", "poll", "parse", "drain", "join_writer", "abort"}
              => p = a /\ a = e
        /\ d_pc = "update"
              => a = e /\ p = (IF u_pc["main"] = "count" THEN a ELSE a + 1)
        /\ d_pc \in {"pipe", "lock", "push"} => p = a /\ a = e + 1
        /\ \A i \in 1..e : /\ redis_out[i].key = enqueued[i].ticker
                           /\ redis_out[i].value = FormatF(enqueued[i].price)

\* The second event is counted and its SET appended; its item is not pushed yet.
C6_Witness ==
    d_pc = "lock" /\ total_processed = 2 /\ Len(enqueued) = 1

\* C7: the step that handles a payload that does not decode changes no
\* latency statistic, not the pipeline count and not the queue, and leaves
\* main at the head of its loop.
C7_DecodeFailureDropped ==
    [][(d_pc = "parse" /\ ~ParseFromArray(rkmessage) /\ d_pc' # d_pc) =>
          /\ total_processed' = total_processed
          /\ total_latency_ns' = total_latency_ns
          /\ min_latency_ns' = min_latency_ns
          /\ max_latency_ns' = max_latency_ns
          /\ redis_pipeline_count' = redis_pipeline_count
          /\ batch_queue' = batch_queue
          /\ d_pc' = "loop"]_vars

\* A payload failed to decode after an event was processed, and main polls again.
C7_Witness ==
    d_pc = "poll" /\ decode_failures = 1 /\ total_processed = 1 /\ msg_count = 2

\* C8: between two messages, processed_count is the number of events decoded
\* and some other counter the program keeps is the number of decode failures.
C8_ParseErrorCounter ==
    d_pc = "loop" =>
        /\ total_processed = msg_count - decode_failures
        /\ \E c \in {msg_count, redis_pipeline_count, total_latency_ns, total_written} :
              c = decode_failures

\* C9: the latency main computes is max(0, arrival - produce), and no item
\* queued, buffered or given to the sink has a negative latency_ms.
C9_Clamping ==
    /\ d_pc = "update" =>
          /\ latency_ns = Max2(0, arrival_timestamp - rkmessage.timestamp_ns)
          /\ u_latency_ns["main"] = latency_ns
    /\ \A m \in Range(batch_queue) \cup Range(local_batch) \cup Range(AllRows) :
          NonNegative(m.latency_ms)

\* C10: the stored minimum is at most, and the stored maximum at least, every
\* latency whose call has returned; when no call is in progress they are the
\* least and the greatest of the latencies recorded.
C10_NoLostUpdate ==
    /\ \A l \in completed : min_latency_ns <= l /\ l <= max_latency_ns
    /\ ((\A t \in Callers : u_pc[t] = "idle") /\ completed # {}) =>
          /\ min_latency_ns = SetMin(completed)
          /\ max_latency_ns = SetMax(completed)

\* Every call has returned and the callers recorded different latencies.
C10_Witness ==
    /\ \A t \in Recorders : u_pc[t] = "idle" /\ calls[t] = MaxCalls
    /\ Cardinality(completed) >= 2

\* C11: the processed count never goes down: no step lowers total_processed,
\* and each snapshot the reporter loads is at least its previous snapshot.
C11_ProcessedMonotone ==
    [][/\ total_processed' >= total_processed
       /\ (r_pc = "load_processed" /\ r_pc' \in {"loop", "load_total"})
              => processed' >= prev_processed]_vars

\* A snapshot that is larger than the one before it, main still processing.
C11_Witness ==
    r_pc = "load_total" /\ prev_processed = 0 /\ processed = 1 /\ d_pc = "lock"

\* The cache after it has applied the commands in the order they were
\* appended: the value under a key is that of the last SET of the key (a set
\* of one value, empty while the key is absent).
RECURSIVE CacheValue(_, _)
CacheValue(cmds, key) ==
    IF cmds = <<>> THEN {}
    ELSE IF cmds[Len(cmds)].key = key THEN {cmds[Len(cmds)].value}
    ELSE CacheValue(SubSeq(cmds, 1, Len(cmds) - 1), key)
\* The price of the last event of a ticker the Dispatcher has processed.
RECURSIVE LastPrice(_, _)
LastPrice(events, ticker) ==
    IF events = <<>> THEN {}
    ELSE IF events[Len(events)].ticker = ticker THEN {events[Len(events)].price}
    ELSE LastPrice(SubSeq(events, 1, Len(events) - 1), ticker)
Tickers == {u.ticker : u \in Updates}
BetweenEvents == d_pc \notin {"update", "pipe", "lock", "push"}

\* C12 as stated: between two events the cache holds, for every ticker, the
\* price of the last event of the ticker.
C12_CacheHoldsLastPrice ==
    BetweenEvents =>
        \A k \in Tickers : CacheValue(redis_out, k) = LastPrice(enqueued, k)

\* C12: between two events the cache holds, for every ticker, the price of
\* the last event of the ticker as %f writes it, six decimal places, however
\* the commands were grouped into pipeline reads.
C12_CacheHoldsLastPriceFormatted ==
    BetweenEvents =>
        \A k \in Tickers :
            CacheValue(redis_out, k) = {FormatF(p) : p \in LastPrice(enqueued, k)}

\* Two events of one ticker with different prices, the first acknowledged in
\* an idle poll, the second still outstanding.
C12_Witness ==
    /\ d_pc = "loop"
    /\ Len(enqueued) = 2
    /\ enqueued[1].ticker = enqueued[2].ticker
    /\ enqueued[1].price # enqueued[2].price
    /\ replies_read = 1
    /\ redis_pipeline_count = 1

\* C13: the outstanding count never exceeds PIPELINE_MAX; it holds
\* PIPELINE_MAX only just after an append, and the Dispatcher's next step
\* then reads PIPELINE_MAX replies and resets the count, before it takes the
\* queue lock and before it polls again.
C13_PipelineThreshold ==
    [][/\ redis_pipeline_count' <= PIPELINE_MAX
       /\ redis_pipeline_count' = PIPELINE_MAX => d_pc' = "pipe"
       /\ (d_pc = "pipe" /\ d_pc' # d_pc /\ redis_pipeline_count = PIPELINE_MAX)
              => /\ replies_read' = replies_read + PIPELINE_MAX
                 /\ redis_pipeline_count' = 0
                 /\ d_pc' = "lock"
                 /\ batch_queue' = batch_queue
                 /\ msg_count' = msg_count]_vars

\* The pipeline was read out at the threshold, the event not yet pushed.
C13_Witness ==
    /\ d_pc = "lock"
    /\ Len(redis_out) = PIPELINE_MAX
    /\ replies_read = PIPELINE_MAX
    /\ redis_pipeline_count = 0
    /\ Len(enqueued) = PIPELINE_MAX - 1

\* C14: a poll that times out reads every outstanding reply and leaves the
\* outstanding count at 0 for the next poll; it changes neither the
\* statistics, nor the queue, nor the commands appended.
C14_IdlePollDrains ==
    [][(d_pc = "poll" /\ d_pc' = "loop" /\ rkmessage' = NoMsg)
          => /\ redis_pipeline_count' = 0
             /\ replies_read' = replies_read + redis_pipeline_count
             /\ UNCHANGED <<total_processed, total_latency_ns, min_latency_ns,
                            max_latency_ns, batch_queue, redis_out, msg_count>>]_vars

\* An idle poll has read the one outstanding reply.
C14_Witness ==
    /\ d_pc = "loop"
    /\ run = 1
    /\ rkmessage = NoMsg
    /\ Len(redis_out) = 1
    /\ replies_read = 1
    /\ redis_pipeline_count = 0

\* C15: the Writer holds queue_mutex exactly while it drains the queue; it
\* has released it when it decides on the flush, while the sink executes a
\* statement and while it sleeps, so that a Dispatcher waiting for the lock
\* then finds it free.
C15_WriterLockOnlyWhileDraining ==
    /\ w_pc = "drain" => queue_mutex = "writer"
    /\ queue_mutex = "writer" => w_pc \in {"drain", "abort"}
    /\ (d_pc = "lock" /\ w_pc \in {"check", "flush", "sleep"})
           => (queue_mutex = "free" /\ ENABLED D_Lock)

\* The Dispatcher pushes an item while the sink executes a statement.
C15_Witness ==
    w_pc = "flush" /\ d_pc = "push" /\ queue_mutex = "main"

\* Every thread has returned and main has joined both workers.
Exited == d_pc = "done" /\ w_pc = "done" /\ r_pc = "done"

\* C16: run, once 0, stays 0; a thread that is at the top of its loop when
\* run is 0 leaves the loop; and once run is 0 every thread returns and main
\* joins both workers, unless the process was aborted at line 358.
C16_ShutdownTerminates ==
    /\ [][run = 0 => run' = 0]_vars
    /\ [][run = 0 =>
             /\ (d_pc = "loop" /\ d_pc' # d_pc) => d_pc' = "drain"
             /\ (w_pc = "loop" /\ w_pc' # w_pc) => w_pc' \in {"exit", "abort"}
             /\ (r_pc = "loop" /\ r_pc' # r_pc) => r_pc' \in {"done", "abort"}]_vars
    /\ (run = 0) ~> (Exited \/ d_pc = "abort")

\* Interrupted with an item still queued, the process has exited.
C16_Witness ==
    Exited /\ run = 0 /\ total_processed = 1 /\ batch_queue # <<>>

\* C17: a step of the reporter changes none of run, the statistics, the
\* queue and the Writer's buffer; of the shared state it changes only
\* queue_mutex, which it takes at line 120 and releases at line 122.
C17_ReporterObservesOnly ==
    [][(r_pc' # r_pc /\ r_pc' # "abort")
          => /\ UNCHANGED <<run, total_processed, total_latency_ns,
                            min_latency_ns, max_latency_ns, batch_queue,
                            local_batch>>
             /\ queue_mutex' # queue_mutex
                   => \/ r_pc = "lock" /\ queue_mutex = "free"
                         /\ queue_mutex' = "reporter"
                      \/ r_pc = "size" /\ queue_mutex = "reporter"
                         /\ queue_mutex' = "free"]_vars

\* The reporter has taken a whole snapshot, the queue not empty.
C17_Witness ==
    r_pc = "print" /\ processed >= 1 /\ queue_size >= 1 /\ batch_queue # <<>>

\* Every message of the topic was consumed and handled; nothing is in flight.
NothingMoreToCome == topic = 0 /\ d_pc \in {"loop", "poll"} /\ batch_queue = <<>>
Aborted == d_pc = "abort"

\* C18: with no interrupt, once the topic is consumed the program settles:
\* total_processed is the number of decoded messages, the queue and the
\* buffer are empty for good and every item was given to the sink.  And a
\* flush of fewer than BATCH_SIZE rows, when every flush before it had
\* BATCH_SIZE rows and nothing more is to come, is the remainder: it follows
\* Len(enqueued) \div BATCH_SIZE full batches and holds the other rows.
\* (A process aborted at line 358 is set aside.)
C18_EndToEnd ==
    /\ <>[](Aborted \/ (topic = 0 =>
               /\ total_processed = msg_count - decode_failures
               /\ total_processed = Len(enqueued)
               /\ batch_queue = <<>>
               /\ local_batch = <<>>
               /\ AllRows = Query(enqueued)))
    /\ [][(/\ FlushStep
           /\ Len(local_batch) < BATCH_SIZE
           /\ \A i \in 1..Len(flushes) : Len(flushes[i].rows) = BATCH_SIZE
           /\ NothingMoreToCome)
          => /\ Len(flushes) = Len(enqueued) \div BATCH_SIZE
             /\ Len(local_batch) = Len(enqueued) % BATCH_SIZE
             /\ AllRows' = Query(enqueued)]_vars

\* Three decoded messages, one full batch and then the remainder, all accepted.
C18_Witness ==
    /\ NothingMoreToCome
    /\ total_processed = MaxMsgs
    /\ Len(flushes) = 2
    /\ Len(flushes[1].rows) = BATCH_SIZE
    /\ Len(flushes[2].rows) = MaxMsgs - BATCH_SIZE
    /\ \A i \in 1..2 : flushes[i].ok

\* C19 as stated: the queue between main and the Writer has a capacity that
\* does not grow with the input; here, one below the number of messages the
\* topic delivers.
C19_QueueBounded == Len(batch_queue) < MaxMsgs

\* C20: a drain moves the first min(queue length, BATCH_SIZE - buffer size)
\* items of the queue to the end of the buffer and leaves the others queued
\* in order; the buffer never holds more than BATCH_SIZE items and every
\* statement given to the sink has between 1 and BATCH_SIZE rows.
C20_DrainRespectsCap ==
    [][/\ (w_pc = "drain" /\ w_pc' = "check")
              => LET n == Min2(Len(batch_queue), BATCH_SIZE - Len(local_batch))
                 IN  /\ local_batch' = local_batch \o SubSeq(batch_queue, 1, n)
                     /\ batch_queue' = SubSeq(batch_queue, n + 1, Len(batch_queue))
       /\ Len(local_batch') <= BATCH_SIZE
       /\ \A i \in 1..Len(flushes') :
              1 <= Len(flushes'[i].rows) /\ Len(flushes'[i].rows) <= BATCH_SIZE]_vars

\* A drain has filled the buffer and left an item queued.
C20_Witness ==
    /\ w_pc = "check"
    /\ Len(local_batch) = BATCH_SIZE
    /\ batch_queue # <<>>

\* C21: an iteration that reads the clock with fewer than BATCH_SIZE items
\* buffered and less than FLUSH_INTERVAL_MS elapsed gives the sink nothing,
\* keeps the buffer as it is and sleeps; the sleep changes neither, and time
\* since last_flush only grows.  last_flush is set (elapsed falls) only by a
\* flush, which leaves the buffer empty.
C21_NoFlushKeepsBuffer ==
    [][/\ (/\ w_pc = "check" /\ w_pc' \notin {"check", "abort"}
           /\ Len(local_batch) < BATCH_SIZE
           /\ elapsed' < FLUSH_INTERVAL_MS)
              => /\ w_pc' = "sleep"
                 /\ UNCHANGED <<flushes, local_batch, total_written>>
       /\ (w_pc = "sleep" /\ w_pc' = "loop")
              => /\ UNCHANGED <<flushes, local_batch, total_written>>
                 /\ elapsed' >= elapsed
       /\ elapsed' < elapsed => FlushStep
       /\ FlushStep => (elapsed' = 0 /\ local_batch' = <<>>)]_vars

\* The Writer goes to sleep with an item buffered, neither condition met.
C21_Witness ==
    /\ w_pc = "sleep"
    /\ local_batch # <<>>
    /\ Len(local_batch) < BATCH_SIZE
    /\ elapsed < FLUSH_INTERVAL_MS

\* C22: a thread is at its access to batch_queue only while it owns
\* queue_mutex, so no two of the push, the drain and the size read overlap;
\* the queue grows only by main's push at its end, shrinks only by the
\* Writer's drain at its front, and the reporter's read leaves it as it is.
C22_QueueAccessUnderMutex ==
    [][/\ d_pc' = "push" => queue_mutex' = "main"
       /\ w_pc' = "drain" => queue_mutex' = "writer"
       /\ r_pc' = "size" => queue_mutex' = "reporter"
       /\ Cardinality({t \in {"main", "writer", "reporter"} :
              \/ t = "main" /\ d_pc' = "push"
              \/ t = "writer" /\ w_pc' = "drain"
              \/ t = "reporter" /\ r_pc' = "size"}) <= 1
       /\ batch_queue' # batch_queue
              => \/ /\ d_pc = "push" /\ queue_mutex = "main"
                    /\ Len(batch_queue') = Len(batch_queue) + 1
                    /\ SubSeq(batch_queue', 1, Len(batch_queue)) = batch_queue
                 \/ /\ w_pc = "drain" /\ queue_mutex = "writer"
                    /\ Len(batch_queue') < Len(batch_queue)
                    /\ batch_queue' = SubSeq(batch_queue,
                                             Len(batch_queue) - Len(batch_queue') + 1,
                                             Len(batch_queue))
       /\ (r_pc = "size" /\ r_pc' = "print")
              => (queue_mutex = "reporter" /\ queue_size' = Len(batch_queue)
                  /\ batch_queue' = batch_queue)]_vars

\* main is pushing while the Writer and the reporter both wait for the mutex.
C22_Witness ==
    d_pc = "push" /\ w_pc = "lock" /\ r_pc = "lock" /\ queue_mutex = "main"

\* C23: the division total_lat / processed never faults: past the test of
\* line 108 the processed count the reporter holds is greater than 0, and a
\* count read as 0 sends the reporter back to the top of its loop with no
\* division made.
C23_NoDivisionByZero ==
    /\ ~avg_latency.fault
    /\ r_pc \in {"load_total", "load_min", "load_max", "lock", "size", "print"}
           => processed > 0
    /\ r_pc \in {"loop", "sleep", "load_processed"}
           => (processed = 0 /\ avg_latency = DivLL(0, 1))

\* The division was made from a count of 1, main inside update_latency_stats.
C23_Witness ==
    /\ r_pc = "lock"
    /\ processed = 1
    /\ avg_latency = DivLL(total_lat, 1)
    /\ d_pc = "update"

\* Every item that left main, wherever it is now: given to the sink, in the
\* Writer's buffer, or queued.
Everywhere == AllRows \o Query(local_batch) \o Query(batch_queue)

\* C24: the items ever enqueued are as many as those queued, buffered and
\* given to the sink together; each is in exactly one place, once; and
\* total_written counts the rows of the statements that succeeded, which are
\* no more than total_processed.
C24_ItemConservation ==
    /\ Len(enqueued) = Len(batch_queue) + Len(local_batch) + Len(AllRows)
    /\ \A i \in 1..Len(enqueued) : Occurrences(enqueued[i].seq, Everywhere) = 1
    /\ total_written = Len(OkRows)
    /\ total_written <= total_processed

\* One item in a statement that failed, one buffered, one queued.
C24_Witness ==
    /\ Len(flushes) = 1
    /\ ~flushes[1].ok
    /\ Len(local_batch) = 1
    /\ Len(batch_queue) = 1
    /\ total_written = 0

\* C25 as stated: once the reporter has made its four loads, from a processed
\* count greater than 0, the minimum it holds is not greater than the maximum
\* it holds and is not the initial LLONG_MAX.
C25_ReportPlausible ==
    r_pc \in {"lock", "size", "print"}
        => (min_lat <= max_lat /\ min_lat # LLONG_MAX)

\* C26 as stated: when main returns, with 1 or with 0, every worker it
\* started has returned and was joined.
C26_WorkersJoinedOnReturn ==
    d_pc \in {"return_1", "done"}
        => (w_pc = "done" /\ r_pc \in {"unstarted", "done"})

\* main has left its loop and finished the read-out of lines 394-401.
FinalDrainDone == d_pc \in {"join_writer", "join_stats", "done"}

\* C27: up to the last read-out, the redisGetReply calls made so far plus
\* redis_pipeline_count equal the SET commands appended so far; after the last
\* read-out there has been exactly one call for every command appended, also
\* when calls have failed.
C27_ReplyAccounting ==
    /\ ~FinalDrainDone
          => replies_read + redis_pipeline_count = Len(redis_out)
    /\ FinalDrainDone => replies_read = Len(redis_out)

\* The last read-out has made calls, a call has failed, and commands were
\* read out before it as well.
C27_Witness ==
    /\ FinalDrainDone
    /\ get_reply_failed
    /\ redis_pipeline_count > 0
    /\ Len(redis_out) > redis_pipeline_count

=============================================================================
